---- MODULE Spec2Model ----
(***************************************************************************)
(* A model of generateImportMapFromDir (src/importmap/                     *)
(* generateImportMapFromDir.js): the concurrent, depth-bounded directory   *)
(* walk that builds a specifier -> path import map.                        *)
(*                                                                         *)
(* Strings are sequences of one-character strings, so that extname, slice, *)
(* join, relative, startsWith and includes are computed, not assumed.      *)
(* A JavaScript object is a sequence of <<key, value>> pairs in insertion  *)
(* order.  One action is one completion of a pending filesystem operation  *)
(* together with every continuation the event loop runs before the next    *)
(* completion can be delivered (run to the next suspension).               *)
(*                                                                         *)
(* Three state machines share the module: Spec is one call of              *)
(* generateImportMapFromDir; CacheSpec drives the two AbortableCache       *)
(* objects through get, clear and fetch completions; BuildSpec is a        *)
(* sequence of buildFn calls on one output directory.                      *)
(***************************************************************************)
EXTENDS Integers, Sequences, FiniteSets, TLC

VARIABLES
    fs,          \* the directory tree on disk: path segments -> node
    options,     \* the options argument of generateImportMapFromDir
    main,        \* position of the generateImportMapFromDir call itself
    data,        \* the result mapping, in insertion order
    scanned,     \* the set of directory paths already visited
    dirCache,    \* AbortableCache over readdir: key -> promise state
    statsCache,  \* AbortableCache over stat: key -> promise state
    pending,     \* filesystem operations in flight, in issue order
    visit,       \* one record per running or finished scan(dir, depth) call
    outFile,     \* what writeFile stored at options.output
    aborted,     \* history: the cache entries whose controller was aborted
    fsLog,       \* history: every filesystem call issued, in order
    regLog,      \* history: every "data[k] ||= v" executed, in order
    cacheLog,    \* history: every get and clear called on a cache, in order
    opts,        \* the opts argument of buildFn
    dist,        \* the output directory of buildFn: whether it exists, its files
    build,       \* position of the buildFn call, and the count of calls so far
    rotLog       \* history: every backup rotation buildFn performed, in order

walkVars == <<main, data, scanned, dirCache, statsCache,
              pending, visit, outFile, aborted, fsLog, regLog, cacheLog>>

buildVars == <<opts, dist, build, rotLog>>

vars == <<fs, options, main, data, scanned, dirCache, statsCache,
          pending, visit, outFile, aborted, fsLog, regLog, cacheLog,
          opts, dist, build, rotLog>>

-----------------------------------------------------------------------------
(* Bounds of the model *)

MaxDepthOpt == 3

\* the largest retention count (maxBackups) passed to buildFn
MaxBackupsOpt == 3

\* the number of buildFn calls in one run
MaxBuilds == 6

\* the number of get and clear calls made on the caches in one run
MaxCacheCalls == 4

-----------------------------------------------------------------------------
(* String primitives (String.prototype) *)

Max(a, b) == IF a > b THEN a ELSE b

Min(a, b) == IF a < b THEN a ELSE b

\* s.startsWith(p)
StartsWith(s, p) ==
    /\ Len(p) <= Len(s)
    /\ SubSeq(s, 1, Len(p)) = p

\* s.endsWith(p)
EndsWith(s, p) ==
    /\ Len(p) <= Len(s)
    /\ SubSeq(s, Len(s) - Len(p) + 1, Len(s)) = p

\* s.includes(p)
Includes(s, p) ==
    \E i \in 1..(Len(s) - Len(p) + 1) : SubSeq(s, i, i + Len(p) - 1) = p

\* s.slice(0, -n); slice(0, -0) is slice(0, 0), the empty string
SliceOffEnd(s, n) ==
    IF n = 0 \/ n >= Len(s) THEN <<>> ELSE SubSeq(s, 1, Len(s) - n)

\* s.slice(1)
SliceFrom1(s) ==
    IF Len(s) <= 1 THEN <<>> ELSE SubSeq(s, 2, Len(s))

\* s[0] : a one-character string, or the empty sequence standing for undefined
CharAt0(s) ==
    IF Len(s) = 0 THEN <<>> ELSE <<s[1]>>

\* s.lastIndexOf(c), 1-based; 0 when c does not occur
LastIndexOf(s, c) ==
    LET hits == {i \in 1..Len(s) : s[i] = c}
    IN  IF hits = {} THEN 0 ELSE CHOOSE i \in hits : \A j \in hits : j <= i

-----------------------------------------------------------------------------
(* path module (POSIX) *)

RECURSIVE SplitAcc(_, _, _)
SplitAcc(s, i, cur) ==
    IF i > Len(s) THEN <<cur>>
    ELSE IF s[i] = "/" THEN <<cur>> \o SplitAcc(s, i + 1, <<>>)
    ELSE SplitAcc(s, i + 1, Append(cur, s[i]))

\* s.split('/')
Split(s) == SplitAcc(s, 1, <<>>)

RECURSIVE JoinSegs(_)
JoinSegs(segs) ==
    IF Len(segs) = 0 THEN <<>>
    ELSE IF Len(segs) = 1 THEN segs[1]
    ELSE segs[1] \o <<"/">> \o JoinSegs(Tail(segs))

\* normalizeString: drop empty and "." segments, let ".." cancel a segment
RECURSIVE NormSegs(_, _)
NormSegs(segs, acc) ==
    IF Len(segs) = 0 THEN acc
    ELSE LET h == Head(segs)
         IN  IF h = <<>> \/ h = <<".">> THEN NormSegs(Tail(segs), acc)
             ELSE IF h = <<".", ".">>
                  THEN IF Len(acc) > 0 /\ acc[Len(acc)] # <<".", ".">>
                       THEN NormSegs(Tail(segs), SubSeq(acc, 1, Len(acc) - 1))
                       ELSE NormSegs(Tail(segs), Append(acc, h))
             ELSE NormSegs(Tail(segs), Append(acc, h))

\* path.normalize of a relative path; a trailing slash is kept
normalize(p) ==
    LET body == JoinSegs(NormSegs(Split(p), <<>>))
        trail == Len(p) > 0 /\ p[Len(p)] = "/"
    IN  IF body = <<>> THEN (IF trail THEN <<".", "/">> ELSE <<".">>)
        ELSE IF trail THEN body \o <<"/">> ELSE body

\* path.join(a, b) for string arguments
join(a, b) ==
    IF a = <<>> THEN normalize(b)
    ELSE IF b = <<>> THEN normalize(a)
    ELSE normalize(a \o <<"/">> \o b)

\* path.extname(name)
extname(name) ==
    LET base == Split(name)[Len(Split(name))]
        i == LastIndexOf(base, ".")
    IN  IF i <= 1 THEN <<>> ELSE SubSeq(base, i, Len(base))

\* path.basename(name, ext)
basename(name, ext) ==
    LET base == Split(name)[Len(Split(name))]
    IN  IF ext # <<>> /\ EndsWith(base, ext)
        THEN SubSeq(base, 1, Len(base) - Len(ext))
        ELSE base

\* path.relative(from, to) for a `to` at or below `from`
relative(from, to) ==
    IF to = from THEN <<>>
    ELSE IF StartsWith(to, from \o <<"/">>)
         THEN SubSeq(to, Len(from) + 2, Len(to))
         ELSE <<".", ".", "/">> \o to

-----------------------------------------------------------------------------
(* JavaScript values as they come out of JSON.parse *)

JUndef == [t |-> "undefined", s |-> <<>>, kv |-> <<>>, n |-> 0]

JNull == [t |-> "null", s |-> <<>>, kv |-> <<>>, n |-> 0]

JStr(str) == [t |-> "string", s |-> str, kv |-> <<>>, n |-> 0]

JNum(num) == [t |-> "number", s |-> <<>>, kv |-> <<>>, n |-> num]

\* an object: its own keys and values in key order
JObj(pairs) == [t |-> "object", s |-> <<>>, kv |-> pairs, n |-> 0]

\* typeof x
TypeOf(x) == IF x.t = "null" THEN "object" ELSE x.t

\* ToBoolean(x)
Truthy(x) ==
    CASE x.t = "undefined" -> FALSE
      [] x.t = "null" -> FALSE
      [] x.t = "string" -> x.s # <<>>
      [] x.t = "number" -> x.n # 0
      [] OTHER -> TRUE

\* x[k] for a parsed JSON value: an own property, else undefined
Prop(x, k) ==
    IF x.t # "object" THEN JUndef
    ELSE LET hits == {i \in 1..Len(x.kv) : x.kv[i][1] = k}
         IN  IF hits = {} THEN JUndef
             ELSE x.kv[CHOOSE i \in hits : \A j \in hits : j <= i][2]

\* a || b
OrElse(a, b) == IF Truthy(a) THEN a ELSE b

-----------------------------------------------------------------------------
(* Names used by the directory trees *)

N_a_js == <<"a", ".", "j", "s">>
N_a_mjs == <<"a", ".", "m", "j", "s">>
N_c_txt == <<"c", ".", "t", "x", "t">>
N_e_js == <<"e", ".", "j", "s">>
N_x_js == <<"x", ".", "j", "s">>
N_sub == <<"s", "u", "b">>
N_sub_js == <<"s", "u", "b", ".", "j", "s">>
N_index_js == <<"i", "n", "d", "e", "x", ".", "j", "s">>
N_index_mjs == <<"i", "n", "d", "e", "x", ".", "m", "j", "s">>
N_hidden_js == <<".", "h", ".", "j", "s">>
N_git == <<".", "g">>
N_ctor_js == <<"c", "o", "n", "s", "t", "r", "u", "c", "t", "o", "r", ".", "j", "s">>
N_ctor == <<"c", "o", "n", "s", "t", "r", "u", "c", "t", "o", "r">>
N_d == <<"d">>
N_l == <<"l">>
N_p == <<"p">>
N_q == <<"q">>
N_r == <<"r">>
N_u == <<"u">>
N_b == <<"b">>
N_out == <<"o", "u", "t">>

K_main == <<"m", "a", "i", "n">>
K_exports == <<"e", "x", "p", "o", "r", "t", "s">>
K_default == <<"d", "e", "f", "a", "u", "l", "t">>
K_browser == <<"b", "r", "o", "w", "s", "e", "r">>
K_import == <<"i", "m", "p", "o", "r", "t">>
K_node == <<"n", "o", "d", "e">>
K_dot == <<".">>
K_dotSlash == <<".", "/">>
K_packageJson == <<"p", "a", "c", "k", "a", "g", "e", ".", "j", "s", "o", "n">>
K_index == <<"i", "n", "d", "e", "x">>

\* names of the properties every plain object inherits from Object.prototype
ObjectPrototypeKeys ==
    { <<"c", "o", "n", "s", "t", "r", "u", "c", "t", "o", "r">>,
      <<"t", "o", "S", "t", "r", "i", "n", "g">>,
      <<"v", "a", "l", "u", "e", "O", "f">>,
      <<"_", "_", "p", "r", "o", "t", "o", "_", "_">> }

-----------------------------------------------------------------------------
(* Directory trees.  A tree maps a root-relative sequence of path segments   *)
(* to a node; a name that is listed but has no node has vanished.            *)

DirNode(list) ==
    [kind |-> "dir", list |-> list, json |-> JUndef, parses |-> FALSE, readable |-> TRUE]

UnreadableDir ==
    [kind |-> "dir", list |-> <<>>, json |-> JUndef, parses |-> FALSE, readable |-> FALSE]

FileNode ==
    [kind |-> "file", list |-> <<>>, json |-> JUndef, parses |-> FALSE, readable |-> TRUE]

\* a package.json whose text parses to `json`
ManifestNode(json) ==
    [kind |-> "file", list |-> <<>>, json |-> json, parses |-> TRUE, readable |-> TRUE]

\* a package.json whose text is not JSON
BadManifestNode ==
    [kind |-> "file", list |-> <<>>, json |-> JUndef, parses |-> FALSE, readable |-> TRUE]

\* a root path that stat rejects with an error other than ENOENT
DeniedNode ==
    [kind |-> "denied", list |-> <<>>, json |-> JUndef, parses |-> FALSE, readable |-> FALSE]

MainOnly(path) == JObj(<< <<K_main, JStr(path)>> >>)

\* R/a.js, R/sub/index.js, R/sub/c.txt, R/p/package.json {main: "l/e.js"}, R/p/l/e.js
TreeScenario ==
    ( <<>> :> DirNode(<<N_a_js, N_sub, N_p>>) ) @@
    ( <<N_a_js>> :> FileNode ) @@
    ( <<N_sub>> :> DirNode(<<N_index_js, N_c_txt>>) ) @@
    ( <<N_sub, N_index_js>> :> FileNode ) @@
    ( <<N_sub, N_c_txt>> :> FileNode ) @@
    ( <<N_p>> :> DirNode(<<K_packageJson, N_l>>) ) @@
    ( <<N_p, K_packageJson>> :> ManifestNode(MainOnly(<<"l", "/", "e", ".", "j", "s">>)) ) @@
    ( <<N_p, N_l>> :> DirNode(<<N_e_js>>) ) @@
    ( <<N_p, N_l, N_e_js>> :> FileNode )

\* R lists sub, package.json, sub.js in that order; R/sub/index.js
TreeRace ==
    ( <<>> :> DirNode(<<N_sub, K_packageJson, N_sub_js>>) ) @@
    ( <<N_sub>> :> DirNode(<<N_index_js>>) ) @@
    ( <<N_sub, N_index_js>> :> FileNode ) @@
    ( <<K_packageJson>> :> ManifestNode(MainOnly(N_a_js)) ) @@
    ( <<N_sub_js>> :> FileNode )

\* two files with one stem, two index files, and a manifest with main and exports
TreeSameStem ==
    ( <<>> :> DirNode(<<N_a_js, N_a_mjs, N_sub>>) ) @@
    ( <<N_a_js>> :> FileNode ) @@
    ( <<N_a_mjs>> :> FileNode ) @@
    ( <<N_sub>> :> DirNode(<<N_index_js, N_index_mjs, K_packageJson>>) ) @@
    ( <<N_sub, N_index_js>> :> FileNode ) @@
    ( <<N_sub, N_index_mjs>> :> FileNode ) @@
    ( <<N_sub, K_packageJson>> :>
        ManifestNode(JObj(<< <<K_main, JStr(N_a_js)>>,
                             <<K_exports, JStr(<<".", "/">> \o N_x_js)>> >>)) )

\* hidden entries, a directory named sub, and a manifest whose main points into it
TreeHidden ==
    ( <<>> :> DirNode(<<N_hidden_js, N_git, N_a_js, N_sub, N_p>>) ) @@
    ( <<N_hidden_js>> :> FileNode ) @@
    ( <<N_git>> :> DirNode(<<N_a_js, K_packageJson>>) ) @@
    ( <<N_git, N_a_js>> :> FileNode ) @@
    ( <<N_git, K_packageJson>> :> ManifestNode(MainOnly(N_a_js)) ) @@
    ( <<N_a_js>> :> FileNode ) @@
    ( <<N_sub>> :> DirNode(<<N_a_js, N_hidden_js>>) ) @@
    ( <<N_sub, N_a_js>> :> FileNode ) @@
    ( <<N_sub, N_hidden_js>> :> FileNode ) @@
    ( <<N_p>> :> DirNode(<<K_packageJson>>) ) @@
    ( <<N_p, K_packageJson>> :>
        ManifestNode(MainOnly(<<".", ".", "/">> \o N_sub \o <<"/">> \o N_a_js)) )

\* a file whose specifier is the name of an inherited object property
TreeProto ==
    ( <<>> :> DirNode(<<N_ctor_js>>) ) @@
    ( <<N_ctor_js>> :> FileNode )

\* a directory whose specifier is the name of an inherited object property
TreeProtoDir ==
    ( <<>> :> DirNode(<<N_ctor>>) ) @@
    ( <<N_ctor>> :> DirNode(<<N_index_js>>) ) @@
    ( <<N_ctor, N_index_js>> :> FileNode )

\* a chain of directories R/d/d/d/d, each holding a.js
TreeDeep ==
    ( <<>> :> DirNode(<<N_a_js, N_d>>) ) @@
    ( <<N_a_js>> :> FileNode ) @@
    ( <<N_d>> :> DirNode(<<N_d, N_a_js>>) ) @@
    ( <<N_d, N_a_js>> :> FileNode ) @@
    ( <<N_d, N_d>> :> DirNode(<<K_packageJson, N_d>>) ) @@
    ( <<N_d, N_d, K_packageJson>> :> ManifestNode(MainOnly(N_a_js)) ) @@
    ( <<N_d, N_d, N_d>> :> DirNode(<<N_a_js, N_d>>) ) @@
    ( <<N_d, N_d, N_d, N_a_js>> :> FileNode ) @@
    ( <<N_d, N_d, N_d, N_d>> :> DirNode(<<N_index_js>>) ) @@
    ( <<N_d, N_d, N_d, N_d, N_index_js>> :> FileNode )

\* manifests with conditional exports, a subpath map, and a main that is no string
TreeExports ==
    ( <<>> :> DirNode(<<N_p, N_q, N_r>>) ) @@
    ( <<N_p>> :> DirNode(<<K_packageJson>>) ) @@
    ( <<N_p, K_packageJson>> :>
        ManifestNode(JObj(<< <<K_exports,
            JObj(<< <<K_dot, JObj(<< <<K_import, JStr(<<".", "/">> \o N_x_js)>>,
                                     <<K_default, JStr(<<".", "/">> \o N_e_js)>> >>)>> >>)>> >>)) ) @@
    ( <<N_q>> :> DirNode(<<K_packageJson>>) ) @@
    ( <<N_q, K_packageJson>> :>
        ManifestNode(JObj(<< <<K_exports,
            JObj(<< <<<<".", "/", "f">>, JObj(<< <<K_import, JStr(<<".", "/">> \o N_x_js)>> >>)>>,
                    <<<<".", "/", "g">>, JStr(<<".", "/">> \o N_e_js)>> >>)>> >>)) ) @@
    ( <<N_r>> :> DirNode(<<K_packageJson, N_a_js>>) ) @@
    ( <<N_r, K_packageJson>> :> ManifestNode(JObj(<< <<K_main, JNum(5)>> >>)) ) @@
    ( <<N_r, N_a_js>> :> FileNode )

\* a vanished entry, a directory that cannot be listed, a manifest that is not JSON
TreeFaults ==
    ( <<>> :> DirNode(<<N_x_js, N_u, N_b>>) ) @@
    ( <<N_u>> :> UnreadableDir ) @@
    ( <<N_b>> :> DirNode(<<K_packageJson, N_a_js>>) ) @@
    ( <<N_b, K_packageJson>> :> BadManifestNode ) @@
    ( <<N_b, N_a_js>> :> FileNode )

\* a manifest whose exports is a subpath map with a plain path first
TreeSubpath ==
    ( <<>> :> DirNode(<<N_l>>) ) @@
    ( <<N_l>> :> DirNode(<<K_packageJson>>) ) @@
    ( <<N_l, K_packageJson>> :>
        ManifestNode(JObj(<< <<K_exports,
            JObj(<< <<<<".", "/", "g">>, JStr(<<".", "/">> \o N_e_js)>> >>)>> >>)) )

\* a root that holds nothing but a manifest
TreeRootManifest ==
    ( <<>> :> DirNode(<<K_packageJson>>) ) @@
    ( <<K_packageJson>> :>
        ManifestNode(JObj(<< <<K_main, JStr(N_a_js)>>,
                             <<K_exports, JStr(<<".", "/">> \o N_x_js)>> >>)) )

TreeEmpty == ( <<>> :> DirNode(<<>>) )

\* the root path is a regular file
TreeRootIsFile == ( <<>> :> FileNode )

\* the root path exists but stat fails with an error other than ENOENT
TreeRootDenied == ( <<>> :> DeniedNode )

\* the root path does not exist
TreeRootMissing == ( <<N_x_js>> :> FileNode )

Trees ==
    { TreeScenario, TreeRace, TreeSameStem, TreeHidden, TreeProto, TreeProtoDir, TreeDeep,
      TreeExports, TreeSubpath, TreeRootManifest, TreeFaults, TreeEmpty, TreeRootIsFile,
      TreeRootDenied,
      TreeRootMissing }

-----------------------------------------------------------------------------
(* The options argument *)

Absent == [has |-> FALSE, v |-> <<>>]

Given(v) == [has |-> TRUE, v |-> v]

\* maxDepth: absent, or an integer; 0 and the negatives are outside the
\* documented domain but accepted by the code
MaxDepthOpts ==
    { [has |-> FALSE, v |-> 0] } \cup { [has |-> TRUE, v |-> m] : m \in -1..MaxDepthOpt }

ExcludedOpts == { Absent, Given(<< N_sub, <<>> >>) }

IncludedOpts == { Absent, Given(<< <<".", "m", "j", "s">>, <<"t", "x", "t">>, <<>> >>) }

OutputOpts == { Absent, Given(N_out) }

\* every maxDepth with the other options left out, and every combination of
\* the other options with maxDepth left out
OptionSets ==
    [ maxDepth : MaxDepthOpts, excludedPatterns : {Absent},
      includedExtensions : {Absent}, output : {Absent} ]
    \cup
    [ maxDepth : {[has |-> FALSE, v |-> 0]}, excludedPatterns : ExcludedOpts,
      includedExtensions : IncludedOpts, output : OutputOpts ]

-----------------------------------------------------------------------------
(* The mutable state of one call, as a record, so that the synchronous      *)
(* stretches of code are operators from state to state.                     *)

Cur ==
    [ main |-> main, data |-> data, scanned |-> scanned, dirCache |-> dirCache,
      statsCache |-> statsCache, pending |-> pending, visit |-> visit,
      outFile |-> outFile, aborted |-> aborted, fsLog |-> fsLog, regLog |-> regLog,
      cacheLog |-> cacheLog ]

\* the state when generateImportMapFromDir is entered
Start ==
    [ main |-> [pc |-> "start", error |-> "none"], data |-> <<>>, scanned |-> {},
      dirCache |-> <<>>, statsCache |-> <<>>, pending |-> <<>>, visit |-> <<>>,
      outFile |-> [written |-> FALSE, imports |-> <<>>], aborted |-> {},
      fsLog |-> <<>>, regLog |-> <<>>, cacheLog |-> <<>> ]

\* the index of the entry of seq whose field `key` is k (0 when there is none)
IndexOf(seq, k) ==
    LET hits == {i \in 1..Len(seq) : seq[i].key = k}
    IN  IF hits = {} THEN 0 ELSE CHOOSE i \in hits : \A j \in hits : i <= j

-----------------------------------------------------------------------------
(* The filesystem (fs/promises), seen from the root directory *)

rootDir == <<"R">>

NoNode ==
    [kind |-> "missing", list |-> <<>>, json |-> JUndef, parses |-> FALSE, readable |-> FALSE]

NodeAt(path) ==
    LET segs == NormSegs(Split(relative(rootDir, path)), <<>>)
    IN  IF segs \in DOMAIN fs THEN fs[segs] ELSE NoNode

\* stat(path): the kind of the entry, or the error it rejects with
fsStat(path) ==
    LET node == NodeAt(path)
    IN  CASE node.kind = "missing" -> "ENOENT"
          [] node.kind = "denied" -> "EACCES"
          [] OTHER -> node.kind

\* readdir(path): [ok, list]
fsReaddir(path) ==
    LET node == NodeAt(path)
    IN  IF node.kind = "dir" /\ node.readable
        THEN [ok |-> TRUE, list |-> node.list]
        ELSE [ok |-> FALSE, list |-> <<>>]

\* JSON.parse(await readFile(path, 'utf8')): [ok, json]
fsReadJson(path) ==
    LET node == NodeAt(path)
    IN  IF node.kind = "file" /\ node.readable /\ node.parses
        THEN [ok |-> TRUE, json |-> node.json]
        ELSE [ok |-> FALSE, json |-> JUndef]

-----------------------------------------------------------------------------
(* Option normalisation, lines 142-171 *)

NonEmpty(e) == e # <<>>

excludedPatterns ==
    IF options.excludedPatterns.has
    THEN SelectSeq(options.excludedPatterns.v, NonEmpty)
    ELSE <<>>

hasExclusions == 0 < Len(excludedPatterns)

includedExtensions ==
    LET list == IF options.includedExtensions.has
                THEN SelectSeq(options.includedExtensions.v, NonEmpty)
                ELSE << <<"m", "j", "s">>, <<"j", "s">> >>
    IN  { IF StartsWith(list[i], <<".">>) THEN list[i] ELSE <<".">> \o list[i] :
            i \in DOMAIN list }

maxLimit == 10000

depthMax ==
    IF options.maxDepth.has /\ options.maxDepth.v # 0
    THEN Max(1, Min(maxLimit, options.maxDepth.v))
    ELSE maxLimit

relativeToRootDir(path) == relative(rootDir, path)

resolveExport(x) ==
    LET first == IF x.t = "object" /\ Len(x.kv) > 0 THEN x.kv[1][2] ELSE JUndef
    IN  OrElse(Prop(x, K_default),
        OrElse(Prop(x, K_browser),
        OrElse(Prop(x, K_import),
        OrElse(Prop(x, K_node), first))))

-----------------------------------------------------------------------------
(* The result mapping: a plain object, so reads see Object.prototype too *)

HasOwn(d, k) == \E i \in 1..Len(d) : d[i][1] = k

GetOwn(d, k) == d[CHOOSE i \in 1..Len(d) : d[i][1] = k][2]

\* whether data[k] is truthy
DataTruthy(d, k) ==
    \/ HasOwn(d, k) /\ GetOwn(d, k) # <<>>
    \/ ~HasOwn(d, k) /\ k \in ObjectPrototypeKeys

\* data[k] = v
PutOwn(d, k, v) ==
    IF HasOwn(d, k)
    THEN [i \in 1..Len(d) |-> IF d[i][1] = k THEN <<k, v>> ELSE d[i]]
    ELSE Append(d, <<k, v>>)

\* data[k] = v where the code has data[k] ||= v
SetAlways(s, k, v, dir, kind) ==
    [s EXCEPT !.data = PutOwn(@, k, v),
              !.regLog = Append(@, [key |-> k, value |-> v, dir |-> dir,
                                    kind |-> kind, wrote |-> TRUE])]

\* data[k] ||= v, executed by the visit of dir
SetIfAbsent(s, k, v, dir, kind) ==
    LET wrote == ~DataTruthy(s.data, k)
    IN  [s EXCEPT !.data = IF wrote THEN PutOwn(@, k, v) ELSE @,
                  !.regLog = Append(@, [key |-> k, value |-> v, dir |-> dir,
                                        kind |-> kind, wrote |-> wrote])]

\* data['./'] = './'
AssignRoot(s, dir) ==
    [s EXCEPT !.data = PutOwn(@, K_dotSlash, K_dotSlash),
              !.regLog = Append(@, [key |-> K_dotSlash, value |-> K_dotSlash, dir |-> dir,
                                    kind |-> "slash", wrote |-> TRUE])]

-----------------------------------------------------------------------------
(* AbortableCache *)

\* a promise is named by the position its fetch takes in fsLog
NewPromise(s) == Len(s.fsLog) + 1

\* lines 40-46: call the fetch function and store its promise
fetchAndStore(s, which, op, k) ==
    [s EXCEPT ![which] = Append(@, [key |-> k, settled |-> FALSE, kind |-> "pending",
                                    list |-> <<>>, promise |-> NewPromise(s)]),
              !.pending = Append(@, [op |-> op, path |-> k, promise |-> NewPromise(s)]),
              !.fsLog = Append(@, [op |-> op, path |-> k]),
              !.cacheLog = Append(@, [call |-> "get", which |-> which, key |-> k,
                                      hit |-> FALSE, settled |-> FALSE,
                                      promise |-> NewPromise(s)])]

\* get(key) without the test m.has(key)
getUnchecked(s, which, op, k) == fetchAndStore(s, which, op, k)

\* get(key) on the cache held in field `which`, fetching with operation `op`
get(s, which, op, k) ==
    IF IndexOf(s[which], k) # 0
    THEN [s EXCEPT !.cacheLog =
            Append(@, [call |-> "get", which |-> which, key |-> k, hit |-> TRUE,
                       settled |-> s[which][IndexOf(s[which], k)].settled,
                       promise |-> s[which][IndexOf(s[which], k)].promise])]
    ELSE fetchAndStore(s, which, op, k)

\* clear() on the cache held in field `which`
clear(s, which) ==
    [s EXCEPT !.aborted = @ \cup { <<which, s[which][i].key>> : i \in 1..Len(s[which]) },
              ![which] = <<>>,
              !.cacheLog = Append(@, [call |-> "clear", which |-> which, key |-> <<>>,
                                      hit |-> FALSE, settled |-> FALSE, promise |-> 0])]

-----------------------------------------------------------------------------
(* scan(dir, depth), lines 190-340 *)

\* '.' === item where the code has item.startsWith('.')
isHiddenExact(item) == item = <<".">>

\* line 199
isHidden(item) == StartsWith(item, <<".">>)

\* lines 205-211
isExcluded(item, relPath) ==
    /\ hasExclusions
    /\ \E j \in 1..Len(excludedPatterns) :
           \/ Includes(item, excludedPatterns[j])
           \/ Includes(relPath, excludedPatterns[j])

\* depthMax >= depth where the code has depthMax > depth
entersScanOffByOne(s, dir, depth) ==
    /\ depthMax >= depth
    /\ dir \notin s.scanned

\* lines 191-194: whether a call scan(dir, depth) does anything
entersScan(s, dir, depth) ==
    /\ depthMax > depth
    /\ dir \notin s.scanned

NewVisit(dir, depth, parent) ==
    [ key |-> dir, pc |-> "listing", depth |-> depth, parent |-> parent,
      statPromises |-> <<>>, results |-> <<>>, i |-> 0, pkg |-> JNull,
      hasFiles |-> FALSE, subDirPromises |-> <<>>, ret |-> "none" ]

\* scan(dir, depth) without scanned.add(dir)
scanUnmarked(s, dir, depth, parent) ==
    IF entersScan(s, dir, depth)
    THEN get([s EXCEPT !.visit = Append(@, NewVisit(dir, depth, parent))],
             "dirCache", "readdir", dir)
    ELSE s

\* the call scan(dir, depth) up to its first await (line 198)
scan(s, dir, depth, parent) ==
    IF entersScan(s, dir, depth)
    THEN get([s EXCEPT !.scanned = @ \cup {dir},
                       !.visit = Append(@, NewVisit(dir, depth, parent))],
             "dirCache", "readdir", dir)
    ELSE s

V(s, dir) == s.visit[IndexOf(s.visit, dir)]

SetV(s, dir, v) == [s EXCEPT !.visit[IndexOf(s.visit, dir)] = v]

\* the settled value of a cache entry
Entry(s, which, k) == s[which][IndexOf(s[which], k)]

\* lines 198-224: filter the listing and issue one stat per kept entry
RECURSIVE listLoop(_, _, _, _)
listLoop(s, dir, list, n) ==
    IF n > Len(list) THEN s
    ELSE LET item == list[n]
             fullPath == join(dir, item)
             relPath == relativeToRootDir(fullPath)
         IN  IF isHidden(item) THEN listLoop(s, dir, list, n + 1)
             ELSE IF isExcluded(item, relPath) THEN listLoop(s, dir, list, n + 1)
             ELSE LET s1 == get(s, "statsCache", "stat", fullPath)
                      v == V(s1, dir)
                      s2 == SetV(s1, dir,
                              [v EXCEPT !.statPromises =
                                  Append(@, [item |-> item, fullPath |-> fullPath,
                                             relPath |-> relPath, kind |-> "pending"])])
                  IN  listLoop(s2, dir, list, n + 1)

\* whether Promise.all(statPromises) of the visit has resolved
statsJoined(s, dir) ==
    \A n \in 1..Len(V(s, dir).statPromises) :
        Entry(s, "statsCache", V(s, dir).statPromises[n].fullPath).settled

\* (await Promise.all(statPromises)).filter(Boolean), line 230
statResults(s, dir) ==
    LET sp == V(s, dir).statPromises
        withKind == [n \in 1..Len(sp) |->
                        [sp[n] EXCEPT !.kind = Entry(s, "statsCache", sp[n].fullPath).kind]]
        Found(r) == r.kind # "null"
    IN  SelectSeq(withKind, Found)

\* lines 242-259: the registrations of one file with an included extension
registerFile(s, dir, r) ==
    LET itemExtension == extname(r.item)
        specifier == SliceOffEnd(r.relPath, Len(itemExtension))
        s1 == SetIfAbsent(s, specifier, <<".", "/">> \o r.relPath, dir, "file")
        dirPath == SliceOffEnd(r.relPath, Len(r.item))
        dirKey == IF EndsWith(dirPath, <<"/">>) THEN SliceOffEnd(dirPath, 1) ELSE dirPath
        s2 == IF K_index = basename(r.item, itemExtension) /\ dirPath # <<>>
              THEN SetIfAbsent(s1, dirKey, <<".", "/">> \o r.relPath, dir, "index")
              ELSE s1
        v == V(s2, dir)
    IN  SetV(s2, dir, [v EXCEPT !.hasFiles = TRUE])

\* `./${join(dirRelPath, e)}`, line 270
toNorm(dirRelPath, e) == <<".", "/">> \o join(dirRelPath, e)

\* data[k] = (hasContent = true, toNorm(e)) where the code has ||=
registerNormAssign(r, dir, dirRelPath, k, e, kind) ==
    IF r.threw THEN r
    ELSE IF e.t # "string"
         THEN [r EXCEPT !.hasContent = TRUE, !.threw = TRUE]
    ELSE [r EXCEPT !.st = SetAlways(r.st, k, toNorm(dirRelPath, e.s), dir, kind),
                   !.hasContent = TRUE]

\* data[k] ||= (hasContent = true, toNorm(e)) inside the manifest fold;
\* r is [st, hasContent, threw]; join throws a TypeError when e is no string
registerNorm(r, dir, dirRelPath, k, e, kind) ==
    IF r.threw THEN r
    ELSE IF DataTruthy(r.st.data, k)
         THEN [r EXCEPT !.st.regLog = Append(@, [key |-> k, value |-> <<>>, dir |-> dir,
                                                 kind |-> kind, wrote |-> FALSE])]
    ELSE IF e.t # "string"
         THEN [r EXCEPT !.hasContent = TRUE, !.threw = TRUE]
    ELSE [r EXCEPT !.st = SetIfAbsent(r.st, k, toNorm(dirRelPath, e.s), dir, kind),
                   !.hasContent = TRUE]

\* lines 295-325: for (const subpath in resolved)
RECURSIVE subpathLoop(_, _, _, _, _, _)
subpathLoop(r, dir, dirRelPath, pe, resolved, n) ==
    IF n > Len(resolved.kv) \/ r.threw THEN r
    ELSE LET subpath == resolved.kv[n][1]
             subValue == Prop(pe, subpath)
             subResolved == CASE TypeOf(subValue) = "string" -> subValue
                              [] TypeOf(subValue) = "object" -> resolveExport(subValue)
                              [] OTHER -> JNull
             r1 == IF /\ subpath # <<>>
                      /\ K_dotSlash = CharAt0(subpath)
                      /\ K_dotSlash # subpath
                      /\ Truthy(subValue)
                      /\ Truthy(subResolved)
                   THEN registerNorm(r, dir, dirRelPath, dirRelPath \o SliceFrom1(subpath),
                                     subResolved, "subpath")
                   ELSE r
         IN  subpathLoop(r1, dir, dirRelPath, pe, resolved, n + 1)

\* lines 277-329: the exports field
foldExports(r, dir, dirRelPath, pkg) ==
    LET pe == Prop(pkg, K_exports)
        value == OrElse(Prop(pe, K_dot), pe)
        resolved == IF TypeOf(pe) = "string" THEN pe
                    ELSE IF Truthy(value) /\ TypeOf(value) = "object"
                         THEN resolveExport(value)
                         ELSE value
    IN  IF r.threw \/ ~Truthy(pe) \/ ~Truthy(resolved) THEN r
        ELSE CASE TypeOf(resolved) = "string" ->
                    registerNorm(r, dir, dirRelPath, dirRelPath, resolved, "exports")
               [] TypeOf(resolved) = "object" ->
                    subpathLoop(r, dir, dirRelPath, pe, resolved, 1)
               [] OTHER -> r

\* if (pkg) where the code has if (dirRelPath && pkg)
foldManifestAnyDir(s, dir, dirRelPath, pkg, hasContent) ==
    LET r0 == [st |-> s, hasContent |-> hasContent, threw |-> FALSE]
        r1 == IF Truthy(Prop(pkg, K_main))
              THEN registerNorm(r0, dir, dirRelPath, dirRelPath, Prop(pkg, K_main), "main")
              ELSE r0
    IN  IF Truthy(pkg)
        THEN foldExports(r1, dir, dirRelPath, pkg)
        ELSE r0

\* lines 268-330: apply the manifest of the directory
foldManifest(s, dir, dirRelPath, pkg, hasContent) ==
    LET r0 == [st |-> s, hasContent |-> hasContent, threw |-> FALSE]
        r1 == IF Truthy(Prop(pkg, K_main))
              THEN registerNorm(r0, dir, dirRelPath, dirRelPath, Prop(pkg, K_main), "main")
              ELSE r0
    IN  IF dirRelPath # <<>> /\ Truthy(pkg)
        THEN foldExports(r1, dir, dirRelPath, pkg)
        ELSE r0

\* lines 331-337: the trailing-slash entry
registerSlash(s, dir, dirRelPath, hasContent) ==
    IF ~hasContent THEN s
    ELSE IF dirRelPath # <<>>
         THEN SetIfAbsent(s, dirRelPath \o <<"/">>,
                          <<".", "/">> \o dirRelPath \o <<"/">>, dir, "slash")
         ELSE AssignRoot(s, dir)

\* the state of one element of subDirPromises
childState(s, c) ==
    IF c.skipped THEN "done" ELSE V(s, c.key).pc

childRet(s, c) ==
    IF c.skipped THEN "undefined" ELSE V(s, c.key).ret

\* lines 342-354: after `await scan(rootDir, 0)` resolves
afterWalk(s) ==
    LET s1 == clear(clear([s EXCEPT !.scanned = {}], "dirCache"), "statsCache")
        dest == options.output
    IN  IF dest.has /\ dest.v # <<>>
        THEN [s1 EXCEPT !.main.pc = "writing",
                        !.pending = Append(@, [op |-> "writeFile", path |-> dest.v]),
                        !.fsLog = Append(@, [op |-> "writeFile", path |-> dest.v])]
        ELSE [s1 EXCEPT !.main.pc = "returned"]

RECURSIVE afterJoin(_, _), settle(_, _, _, _), loopFrom(_, _, _)

\* the promise of scan(dir) settles: resume whoever awaits it
settle(s, dir, pc, ret) ==
    LET v == V(s, dir)
        s1 == SetV(s, dir, [v EXCEPT !.pc = pc, !.ret = ret])
        p == v.parent
    IN  IF v.depth = 0
        THEN IF s1.main.pc # "scanning" THEN s1
             ELSE IF pc = "rejected"
                  THEN [s1 EXCEPT !.main = [pc |-> "threw", error |-> "scan"]]
                  ELSE afterWalk(s1)
        ELSE IF V(s1, p).pc # "joining" THEN s1
             ELSE IF pc = "rejected" THEN settle(s1, p, "rejected", "none")
             ELSE IF \A n \in 1..Len(V(s1, p).subDirPromises) :
                         childState(s1, V(s1, p).subDirPromises[n]) = "done"
                  THEN afterJoin(s1, p)
                  ELSE s1

\* lines 265-338: after Promise.all(subDirPromises) resolved
afterJoin(s, dir) ==
    LET v == V(s, dir)
        hasSubDirs == \E n \in 1..Len(v.subDirPromises) :
                          childRet(s, v.subDirPromises[n]) = "true"
        dirRelPath == relativeToRootDir(dir)
        r == foldManifest(s, dir, dirRelPath, v.pkg, v.hasFiles \/ hasSubDirs)
    IN  IF r.threw THEN settle(r.st, dir, "rejected", "none")
        ELSE settle(registerSlash(r.st, dir, dirRelPath, r.hasContent), dir, "done",
                    IF r.hasContent THEN "true" ELSE "false")

\* line 265 without the await: the tail runs as soon as the loop has ended
joinSubDirsUnawaited(s, dir) == afterJoin(s, dir)

\* line 265: await Promise.all(subDirPromises)
joinSubDirs(s, dir) ==
    LET cs == V(s, dir).subDirPromises
    IN  IF \E n \in 1..Len(cs) : childState(s, cs[n]) = "rejected"
        THEN settle(s, dir, "rejected", "none")
        ELSE IF \A n \in 1..Len(cs) : childState(s, cs[n]) = "done"
             THEN afterJoin(s, dir)
             ELSE SetV(s, dir, [V(s, dir) EXCEPT !.pc = "joining"])

\* lines 230-264: the loop over the results, from element n on
loopFrom(s, dir, n) ==
    LET v == V(s, dir)
    IN  IF n > Len(v.results) THEN joinSubDirs(s, dir)
        ELSE LET r == v.results[n]
             IN  IF r.kind = "file"
                 THEN IF K_packageJson = r.item
                      THEN [SetV(s, dir, [v EXCEPT !.pc = "reading", !.i = n])
                              EXCEPT !.pending = Append(@, [op |-> "readFile", path |-> r.fullPath]),
                                     !.fsLog = Append(@, [op |-> "readFile", path |-> r.fullPath])]
                      ELSE IF extname(r.item) \in includedExtensions
                           THEN loopFrom(registerFile(s, dir, r), dir, n + 1)
                           ELSE loopFrom(s, dir, n + 1)
                 ELSE IF r.kind = "dir"
                      THEN LET s1 == scan(s, r.fullPath, v.depth + 1, dir)
                               c == [key |-> r.fullPath,
                                     skipped |-> ~entersScan(s, r.fullPath, v.depth + 1)]
                           IN  loopFrom(SetV(s1, dir,
                                            [V(s1, dir) EXCEPT !.subDirPromises = Append(@, c)]),
                                        dir, n + 1)
                      ELSE loopFrom(s, dir, n + 1)

\* line 230: after Promise.all(statPromises) resolved
afterStats(s, dir) ==
    loopFrom(SetV(s, dir, [V(s, dir) EXCEPT !.pc = "looping", !.results = statResults(s, dir)]),
             dir, 1)

\* line 230: await Promise.all(statPromises)
joinStats(s, dir) ==
    IF statsJoined(s, dir) THEN afterStats(s, dir)
    ELSE SetV(s, dir, [V(s, dir) EXCEPT !.pc = "probing"])

-----------------------------------------------------------------------------
(* Completions of filesystem operations, each with the continuations it     *)
(* resumes                                                                  *)

Settled(cache, k, kind, list) ==
    [cache EXCEPT ![IndexOf(cache, k)] =
        [@ EXCEPT !.settled = TRUE, !.kind = kind, !.list = list]]

\* readdir(k).catch(() => []) settles; the visit of k resumes at line 198
onReaddir(s, k) ==
    IF IndexOf(s.dirCache, k) = 0 THEN s
    ELSE LET list == fsReaddir(k).list
             s1 == [s EXCEPT !.dirCache = Settled(@, k, "list", list)]
         IN  IF IndexOf(s1.visit, k) # 0 /\ V(s1, k).pc = "listing"
             THEN joinStats(listLoop(s1, k, list, 1), k)
             ELSE s1

\* stat(k).catch(() => null) settles; a visit whose stats are now all
\* settled resumes at line 230
onStat(s, k) ==
    IF IndexOf(s.statsCache, k) = 0 THEN s
    ELSE LET st == fsStat(k)
             kind == IF st \in {"ENOENT", "EACCES"} THEN "null" ELSE st
             s1 == [s EXCEPT !.statsCache = Settled(@, k, kind, <<>>)]
             waiting == {n \in 1..Len(s1.visit) :
                            /\ s1.visit[n].pc = "probing"
                            /\ statsJoined(s1, s1.visit[n].key)}
         IN  IF waiting = {} THEN s1
             ELSE afterStats(s1, s1.visit[CHOOSE n \in waiting : \A m \in waiting : n <= m].key)

\* the visit that awaits readFile(path)
readerOf(s, path) ==
    LET reading == {n \in 1..Len(s.visit) :
                       /\ s.visit[n].pc = "reading"
                       /\ s.visit[n].results[s.visit[n].i].fullPath = path}
    IN  IF reading = {} THEN <<>> ELSE s.visit[CHOOSE n \in reading : TRUE].key

\* lines 234-240: JSON.parse or the catch block, then `continue`
resumeRead(s, dir, path) ==
    loopFrom(SetV(s, dir, [V(s, dir) EXCEPT !.pc = "looping",
                                            !.pkg = IF fsReadJson(path).ok
                                                    THEN fsReadJson(path).json ELSE @]),
             dir, V(s, dir).i + 1)

\* lines 234-240: readFile settles
onReadFile(s, path) ==
    IF readerOf(s, path) = <<>> THEN s
    ELSE resumeRead(s, readerOf(s, path), path)

\* lines 348-353: writeFile settles
onWriteFile(s, ok) ==
    IF ok
    THEN [s EXCEPT !.outFile = [written |-> TRUE, imports |-> s.data],
                   !.main.pc = "returned"]
    ELSE [s EXCEPT !.main = [pc |-> "threw", error |-> "write"]]

\* the check of line 114 left out
isDirectoryUnchecked(kind) == TRUE

\* line 114
isDirectory(kind) == kind = "dir"

\* lines 108-116 and 341: stat the root, then start the walk
rootStat(s) ==
    LET kind == fsStat(rootDir)
        s1 == [s EXCEPT !.fsLog = Append(@, [op |-> "rootStat", path |-> rootDir])]
    IN  IF kind = "ENOENT" THEN [s1 EXCEPT !.main = [pc |-> "threw", error |-> "not-exist"]]
        ELSE IF kind = "EACCES" THEN [s1 EXCEPT !.main = [pc |-> "threw", error |-> "stat"]]
        ELSE IF ~isDirectory(kind)
             THEN [s1 EXCEPT !.main = [pc |-> "threw", error |-> "not-directory"]]
        ELSE scan([s1 EXCEPT !.main.pc = "scanning"], rootDir, 0, <<>>)

RemoveAt(seq, n) == SubSeq(seq, 1, n - 1) \o SubSeq(seq, n + 1, Len(seq))

\* the n-th pending operation completes
Dequeue(s, n) == [s EXCEPT !.pending = RemoveAt(@, n)]

\* the handler that the n-th pending operation resumes
complete(s, n, ok) ==
    LET io == s.pending[n]
        s0 == Dequeue(s, n)
    IN  CASE io.op = "readdir" -> onReaddir(s0, io.path)
          [] io.op = "stat" -> onStat(s0, io.path)
          [] io.op = "readFile" -> onReadFile(s0, io.path)
          [] io.op = "writeFile" -> onWriteFile(s0, ok)

-----------------------------------------------------------------------------
(* The state machine *)

\* buildFn is not called
BuildIdle ==
    /\ opts = [bundleFile |-> <<>>, maxBackups |-> 0]
    /\ dist = [exists |-> FALSE, files |-> <<>>]
    /\ build = [pc |-> "idle", calls |-> 0, prev |-> 0]
    /\ rotLog = <<>>

Init ==
    /\ BuildIdle
    /\ fs \in Trees
    /\ options \in OptionSets
    /\ main = Start.main
    /\ data = Start.data
    /\ scanned = Start.scanned
    /\ dirCache = Start.dirCache
    /\ statsCache = Start.statsCache
    /\ pending = Start.pending
    /\ visit = Start.visit
    /\ outFile = Start.outFile
    /\ aborted = Start.aborted
    /\ fsLog = Start.fsLog
    /\ regLog = Start.regLog
    /\ cacheLog = Start.cacheLog

Apply(s) ==
    /\ main' = s.main
    /\ data' = s.data
    /\ scanned' = s.scanned
    /\ dirCache' = s.dirCache
    /\ statsCache' = s.statsCache
    /\ pending' = s.pending
    /\ visit' = s.visit
    /\ outFile' = s.outFile
    /\ aborted' = s.aborted
    /\ fsLog' = s.fsLog
    /\ regLog' = s.regLog
    /\ cacheLog' = s.cacheLog
    /\ UNCHANGED <<fs, options>>
    /\ UNCHANGED buildVars

RootStat ==
    /\ main.pc = "start"
    /\ Apply(rootStat(Cur))

ReaddirDone ==
    \E n \in 1..Len(pending) :
        /\ pending[n].op = "readdir"
        /\ Apply(onReaddir(Dequeue(Cur, n), pending[n].path))

StatDone ==
    \E n \in 1..Len(pending) :
        /\ pending[n].op = "stat"
        /\ Apply(onStat(Dequeue(Cur, n), pending[n].path))

ReadFileDone ==
    \E n \in 1..Len(pending) :
        /\ pending[n].op = "readFile"
        /\ Apply(onReadFile(Dequeue(Cur, n), pending[n].path))

WriteFileDone ==
    \E n \in 1..Len(pending), ok \in BOOLEAN :
        /\ pending[n].op = "writeFile"
        /\ Apply(onWriteFile(Dequeue(Cur, n), ok))

Next ==
    \/ RootStat
    \/ ReaddirDone
    \/ StatDone
    \/ ReadFileDone
    \/ WriteFileDone

Spec == Init /\ [][Next]_vars

-----------------------------------------------------------------------------
(* buildFn, lines 385-496: the backup rotation in front of the bundler.     *)
(* A file of the output directory is [name, made]; `made` is the number of  *)
(* the buildFn call whose bundler wrote its content.                        *)

N_bundle_mjs == <<"b", "u", "n", "d", "l", "e", ".", "m", "j", "s">>
N_bundle == <<"b", "u", "n", "d", "l", "e">>
N_notes_mjs == <<"n", "o", "t", "e", "s", ".", "m", "j", "s">>

Digits == <<"0", "1", "2", "3", "4", "5", "6", "7", "8", "9">>

\* a JavaScript number that is an integer, or NaN
Num(v) == [nan |-> FALSE, v |-> v]

NaN == [nan |-> TRUE, v |-> 0]

\* a % b for a >= 0, b >= 0
Rem(a, b) == IF b = 0 THEN NaN ELSE Num(a % b)

\* n.toString() for an integer n >= 0
RECURSIVE IntToString(_)
IntToString(n) ==
    IF n < 10 THEN <<Digits[n + 1]>>
    ELSE IntToString(n \div 10) \o <<Digits[(n % 10) + 1]>>

\* x.toString()
NumToString(x) == IF x.nan THEN <<"N", "a", "N">> ELSE IntToString(x.v)

\* s.padStart(len, '0')
RECURSIVE padStart(_, _)
padStart(s, len) == IF Len(s) >= len THEN s ELSE padStart(<<"0">> \o s, len)

\* s.substring(a, b), 0 <= a <= b
substring(s, a, b) == SubSeq(s, Min(a, Len(s)) + 1, Min(b, Len(s)))

\* 48 <= c.charCodeAt(0) <= 57
IsDigit(c) == \E d \in 1..10 : Digits[d] = c

DigitValue(c) == (CHOOSE d \in 1..10 : Digits[d] = c) - 1

\* parseInt(s, 10) for a string of digits
RECURSIVE parseInt(_)
parseInt(s) ==
    IF Len(s) = 0 THEN 0
    ELSE parseInt(SubSeq(s, 1, Len(s) - 1)) * 10 + DigitValue(s[Len(s)])

\* Math.ceil(Math.log10(x)) for an integer x >= 1
RECURSIVE CeilLog10From(_, _, _)
CeilLog10From(x, k, p) == IF p >= x THEN k ELSE CeilLog10From(x, k + 1, p * 10)

CeilLog10(x) == CeilLog10From(x, 0, 1)

\* lines 386-393: the options buildFn reads, with their defaults
distDir == <<"d", "i", "s", "t">>

bundleFile == opts.bundleFile

maxBackups == opts.maxBackups

\* line 394
nLen == Max(3, CeilLog10(maxBackups + 1))

\* line 396
dest == join(distDir, bundleFile)

\* lines 399-409
lastDotIndex == LastIndexOf(bundleFile, ".") - 1

baseName == IF 0 < lastDotIndex THEN substring(bundleFile, 0, lastDotIndex) ELSE bundleFile

fileExt ==
    IF 0 < lastDotIndex THEN substring(bundleFile, lastDotIndex, Len(bundleFile)) ELSE <<>>

\* lines 410-411
bkpPrefix == baseName \o <<".", "o", "l", "d", ".">>

pfxLen == Len(bkpPrefix)

\* existsSync(join(distDir, name))
HasFile(d, name) == d.exists /\ \E i \in 1..Len(d.files) : d.files[i].name = name

FileNamed(d, name) == d.files[CHOOSE i \in 1..Len(d.files) : d.files[i].name = name]

\* unlinkSync(join(distDir, name))
unlinkSync(d, name) ==
    LET Other(f) == f.name # name
    IN  [d EXCEPT !.files = SelectSeq(@, Other)]

\* renameSync(join(distDir, from), join(distDir, to)): replaces `to` if it exists
renameSync(d, from, to) ==
    LET gone == unlinkSync(d, to)
    IN  [gone EXCEPT !.files =
            [i \in 1..Len(@) |-> IF @[i].name = from THEN [@[i] EXCEPT !.name = to] ELSE @[i]]]

\* lines 415-444: the number of a file that is a backup in range, else -1
backupNumOf(file) ==
    LET numStr == substring(file, pfxLen, pfxLen + nLen)
        isValid == \A i \in 1..Len(numStr) : IsDigit(numStr[i])
    IN  IF /\ EndsWith(file, fileExt)
           /\ StartsWith(file, bkpPrefix)
           /\ nLen = Len(numStr)
           /\ Len(file) = pfxLen + nLen + Len(fileExt)
           /\ isValid
           /\ parseInt(numStr) < maxBackups
        THEN parseInt(numStr)
        ELSE -1

\* lines 412-446: for (const file of readdirSync(distDir)); acc is [maxNum, prevs]
RECURSIVE scanDist(_, _, _)
scanDist(files, i, acc) ==
    IF i > Len(files) THEN acc
    ELSE LET n == backupNumOf(files[i].name)
         IN  IF n < 0 THEN scanDist(files, i + 1, acc)
             ELSE scanDist(files, i + 1,
                     [maxNum |-> Max(acc.maxNum, n),
                      prevs |-> Append(acc.prevs, [name |-> files[i].name, num |-> n])])

\* a name of the form <baseName>.old.<anything><fileExt>
IsBackupName(name) ==
    /\ StartsWith(name, bkpPrefix)
    /\ EndsWith(name, fileExt)
    /\ Len(name) >= pfxLen + Len(fileExt)

\* the `made` stamps of the backups in directory d, the file `except` left out
BackupStamps(d, except) ==
    { d.files[i].made : i \in {j \in 1..Len(d.files) :
                                  /\ IsBackupName(d.files[j].name)
                                  /\ d.files[j].name # except} }

\* the state of one buildFn call, as a record
BCur == [dist |-> dist, build |-> build, rotLog |-> rotLog]

\* line 447
nextNOf(maxNum) == Rem(maxNum + 1, maxBackups)

\* lines 398-469: the previous artifact is moved to a backup name
rotate(b) ==
    LET found == scanDist(b.dist.files, 1, [maxNum |-> -1, prevs |-> <<>>])
        nextN == nextNOf(found.maxNum)
        backupFile == bkpPrefix \o padStart(NumToString(nextN), nLen) \o fileExt
        count == Len(found.prevs)
        hit == {i \in 1..count : ~nextN.nan /\ nextN.v = found.prevs[i].num}
        d1 == IF maxBackups <= count /\ hit # {}
              THEN unlinkSync(b.dist, found.prevs[CHOOSE i \in hit : \A j \in hit : i <= j].name)
              ELSE b.dist
        d2 == renameSync(d1, bundleFile, backupFile)
    IN  [b EXCEPT !.dist = d2,
                  !.rotLog = Append(@,
                      [ name |-> backupFile,
                        prev |-> FileNamed(b.dist, bundleFile).made,
                        evicted |-> IF HasFile(b.dist, backupFile)
                                    THEN FileNamed(b.dist, backupFile).made ELSE 0,
                        others |-> BackupStamps(d2, backupFile),
                        before |-> Cardinality(BackupStamps(b.dist, <<>>)) ])]

\* lines 385-474: a call of buildFn up to `await esbuild.build(...)`
buildFn(b) ==
    LET b1 == [b EXCEPT !.build = [pc |-> "bundling", calls |-> @.calls + 1,
                                   prev |-> IF HasFile(b.dist, bundleFile)
                                            THEN FileNamed(b.dist, bundleFile).made ELSE 0]]
    IN  IF b.dist.exists
        THEN IF HasFile(b.dist, bundleFile) THEN rotate(b1) ELSE b1
        ELSE [b1 EXCEPT !.dist.exists = TRUE]

\* lines 475-495: esbuild.build settles; on success it has written outfile
onBuild(b, ok) ==
    IF ok
    THEN [b EXCEPT !.dist.files = Append(unlinkSync(b.dist, bundleFile).files,
                                         [name |-> bundleFile, made |-> b.build.calls]),
                   !.build.pc = "returned"]
    ELSE [b EXCEPT !.build.pc = "threw"]

-----------------------------------------------------------------------------
(* The state machine of a sequence of buildFn calls on one output directory *)

\* bundleFile: the default name, and a name without an extension
BundleFileOpts == { N_bundle_mjs, N_bundle }

BuildOpts == [ bundleFile : BundleFileOpts, maxBackups : 0..MaxBackupsOpt ]

\* the output directory before the first call: missing, empty, or holding
\* a file that is no artifact of buildFn
DistStates ==
    { [exists |-> FALSE, files |-> <<>>],
      [exists |-> TRUE, files |-> <<>>],
      [exists |-> TRUE, files |-> << [name |-> N_notes_mjs, made |-> 0] >>] }

\* generateImportMapFromDir is not called
WalkIdle ==
    /\ fs = TreeEmpty
    /\ options = [ maxDepth |-> [has |-> FALSE, v |-> 0], excludedPatterns |-> Absent,
                   includedExtensions |-> Absent, output |-> Absent ]
    /\ main = Start.main
    /\ data = Start.data
    /\ scanned = Start.scanned
    /\ dirCache = Start.dirCache
    /\ statsCache = Start.statsCache
    /\ pending = Start.pending
    /\ visit = Start.visit
    /\ outFile = Start.outFile
    /\ aborted = Start.aborted
    /\ fsLog = Start.fsLog
    /\ regLog = Start.regLog
    /\ cacheLog = Start.cacheLog

BuildInit ==
    /\ WalkIdle
    /\ opts \in BuildOpts
    /\ dist \in DistStates
    /\ build = [pc |-> "idle", calls |-> 0, prev |-> 0]
    /\ rotLog = <<>>

BuildApply(b) ==
    /\ dist' = b.dist
    /\ build' = b.build
    /\ rotLog' = b.rotLog
    /\ UNCHANGED <<fs, options, opts>>
    /\ UNCHANGED walkVars

\* buildFn(opts) is called and runs to its await
BuildFnCall ==
    /\ build.pc # "bundling"
    /\ build.calls < MaxBuilds
    /\ BuildApply(buildFn(BCur))

\* the bundler finishes, with the artifact written or with an error
BundlerDone ==
    \E ok \in BOOLEAN :
        /\ build.pc = "bundling"
        /\ BuildApply(onBuild(BCur, ok))

BuildNext ==
    \/ BuildFnCall
    \/ BundlerDone

BuildSpec == BuildInit /\ [][BuildNext]_vars

-----------------------------------------------------------------------------
(* The state machine of the two AbortableCache objects of lines 118-140,    *)
(* driven through their interface: get(key), clear(), and the completion of *)
(* a fetch                                                                  *)

CacheNames == {"dirCache", "statsCache"}

CacheKeys == { rootDir, join(rootDir, N_a_js) }

\* the function the cache was constructed with, lines 122-129
FetchOf(which) == IF which = "dirCache" THEN "readdir" ELSE "stat"

CacheOf(op) == IF op = "readdir" THEN "dirCache" ELSE "statsCache"

\* whether the promise of the completed fetch io is still stored in its cache
Stored(s, io) ==
    /\ IndexOf(s[CacheOf(io.op)], io.path) # 0
    /\ Entry(s, CacheOf(io.op), io.path).promise = io.promise

\* lines 132-138: the fetch io settles its promise
fetchDone(s, io) ==
    IF ~Stored(s, io) THEN s
    ELSE IF io.op = "readdir" THEN onReaddir(s, io.path)
    ELSE onStat(s, io.path)

CacheInit ==
    /\ WalkIdle
    /\ BuildIdle

CacheGet ==
    \E which \in CacheNames, k \in CacheKeys :
        /\ Len(cacheLog) < MaxCacheCalls
        /\ Apply(get(Cur, which, FetchOf(which), k))

CacheClear ==
    \E which \in CacheNames :
        /\ Len(cacheLog) < MaxCacheCalls
        /\ Apply(clear(Cur, which))

CacheFetchDone ==
    \E n \in 1..Len(pending) :
        Apply(fetchDone(Dequeue(Cur, n), pending[n]))

CacheNext ==
    \/ CacheGet
    \/ CacheClear
    \/ CacheFetchDone

CacheSpec == CacheInit /\ [][CacheNext]_vars

-----------------------------------------------------------------------------
(* Vocabulary of the properties: the tree as the walk is meant to see it     *)

\* the walk itself is over (the result mapping is final)
WalkEnded ==
    \/ main.pc \in {"writing", "returned"}
    \/ main.pc = "threw" /\ main.error = "write"

Prefix(segs, n) == SubSeq(segs, 1, n)

\* the root-relative path of a node, as a string
RelOf(segs) == JoinSegs(segs)

NameStartsWithDot(name) == Len(name) > 0 /\ name[1] = "."

\* the name or the root-relative path contains a configured exclusion pattern
MatchesExclusion(str) ==
    \E n \in 1..Len(excludedPatterns) : Includes(str, excludedPatterns[n])

\* number of directories between the root and the entry at a full path
DepthOfPath(path) == Len(NormSegs(Split(relative(rootDir, path)), <<>>))

\* the bound on the depth as the interface states it: maxDepth clamped to
\* [1, 10000], 10000 when maxDepth is not given
StatedBound ==
    IF options.maxDepth.has
    THEN (IF options.maxDepth.v < 1 THEN 1
          ELSE IF options.maxDepth.v > 10000 THEN 10000 ELSE options.maxDepth.v)
    ELSE 10000

\* maxDepth is absent or a value the interface admits clamping for
MaxDepthInDomain == options.maxDepth.has => options.maxDepth.v # 0

\* the entry at segs is listed by every directory above it, none of its
\* path is hidden or excluded, and its directory lies below the depth bound
Reachable(segs) ==
    /\ Len(segs) >= 1
    /\ segs \in DOMAIN fs
    /\ Len(segs) - 1 < StatedBound
    /\ \A n \in 1..Len(segs) :
          /\ Prefix(segs, n - 1) \in DOMAIN fs
          /\ fs[Prefix(segs, n - 1)].kind = "dir"
          /\ fs[Prefix(segs, n - 1)].readable
          /\ \E m \in 1..Len(fs[Prefix(segs, n - 1)].list) :
                fs[Prefix(segs, n - 1)].list[m] = segs[n]
          /\ ~NameStartsWithDot(segs[n])
          /\ ~MatchesExclusion(segs[n])
          /\ ~MatchesExclusion(RelOf(Prefix(segs, n)))

\* the reachable files whose extension is in the included-extensions set
IncludedFiles ==
    { segs \in DOMAIN fs :
        /\ Reachable(segs)
        /\ fs[segs].kind = "file"
        /\ extname(segs[Len(segs)]) \in includedExtensions }

MapsTo(k, v) == HasOwn(data, k) /\ GetOwn(data, k) = v

DotSlash(rel) == <<".", "/">> \o rel

ManifestKinds == {"main", "exports", "subpath"}

-----------------------------------------------------------------------------
(* C1..C10 *)

\* C1: once a key of the result mapping has a value, no later registration
\* of any kind changes that value, in every interleaving of completions.
C1_WriteOnce ==
    [][\A n \in 1..Len(data) : HasOwn(data', data[n][1])
                               /\ GetOwn(data', data[n][1]) = data[n][2]]_vars

\* a registration was attempted on a key that already had a value
C1_Witness ==
    \E n \in 1..Len(regLog) :
        /\ ~regLog[n].wrote
        /\ HasOwn(data, regLog[n].key)
        /\ GetOwn(data, regLog[n].key) # regLog[n].value

RECURSIVE RunFifo(_)
RunFifo(s) == IF s.pending = <<>> THEN s ELSE RunFifo(complete(s, 1, TRUE))

\* the mapping of the run in which every operation completes in issue order
FifoResult == RunFifo(rootStat(Start)).data

\* C2: for a fixed tree, listing order and options, the final mapping (keys,
\* values, insertion order) is the same for every order of completions.
C2_SameForEveryCompletionOrder ==
    WalkEnded => data = FifoResult

\* C3: when the walk has ended, every reachable file with an included
\* extension has <path without extension> -> ./<path> in the mapping.
C3_EveryIncludedFileMapped ==
    WalkEnded =>
        \A segs \in IncludedFiles :
            MapsTo(SliceOffEnd(RelOf(segs), Len(extname(segs[Len(segs)]))),
                   DotSlash(RelOf(segs)))

\* C4: when the walk has ended, every reachable index.<ext> with an included
\* extension has <its directory's path> -> ./<path of the index file>.
C4_EveryIndexMapsItsDirectory ==
    WalkEnded =>
        \A segs \in IncludedFiles :
            ( /\ Len(segs) >= 2
              /\ basename(segs[Len(segs)], extname(segs[Len(segs)])) = K_index )
            => MapsTo(RelOf(Prefix(segs, Len(segs) - 1)), DotSlash(RelOf(segs)))

\* C5: within one directory's visit the file and index registrations come
\* before the manifest registrations, so an entry for the directory
\* specifier written from an index file is never replaced by the manifest.
C5_IndexBeforeManifest ==
    /\ \A i, j \in 1..Len(regLog) :
          ( /\ regLog[i].dir = regLog[j].dir
            /\ regLog[i].kind \in {"file", "index"}
            /\ regLog[j].kind \in ManifestKinds )
          => i < j
    /\ \A i \in 1..Len(regLog) :
          (regLog[i].kind = "index" /\ regLog[i].wrote)
          => /\ MapsTo(regLog[i].key, regLog[i].value)
             /\ \A j \in 1..Len(regLog) :
                   (regLog[j].key = regLog[i].key /\ regLog[j].kind \in ManifestKinds)
                   => ~regLog[j].wrote

\* an index file wrote the directory specifier and the manifest of the same
\* directory then tried to register it
C5_Witness ==
    \E i, j \in 1..Len(regLog) :
        /\ regLog[i].kind = "index" /\ regLog[i].wrote
        /\ regLog[j].kind \in {"main", "exports"}
        /\ regLog[j].dir = regLog[i].dir
        /\ regLog[j].key = regLog[i].key

\* whether the visit of dir registered anything of the given kinds
Registered(dir, kinds) ==
    \E n \in 1..Len(regLog) :
        regLog[n].dir = dir /\ regLog[n].kind \in kinds /\ regLog[n].wrote

\* "had content": registered a file, or a subdirectory had content, or the
\* manifest fold registered something
RECURSIVE HadContent(_)
HadContent(dir) ==
    \/ Registered(dir, {"file"})
    \/ Registered(dir, ManifestKinds)
    \/ \E n \in 1..Len(V(Cur, dir).subDirPromises) :
          /\ ~V(Cur, dir).subDirPromises[n].skipped
          /\ HadContent(V(Cur, dir).subDirPromises[n].key)

SlashEntryOf(dir) ==
    IF dir = rootDir THEN MapsTo(K_dotSlash, K_dotSlash)
    ELSE MapsTo(relativeToRootDir(dir) \o <<"/">>,
                DotSlash(relativeToRootDir(dir) \o <<"/">>))

\* C6: when the walk has ended, a scanned directory has its trailing-slash
\* entry (the root: ./ -> ./) if and only if it had content; so every
\* scanned ancestor of a directory with such an entry has one too.
C6_SlashIffHadContent ==
    WalkEnded =>
        \A n \in 1..Len(visit) :
            /\ SlashEntryOf(visit[n].key) <=> HadContent(visit[n].key)
            /\ (SlashEntryOf(visit[n].key) /\ visit[n].depth > 0)
               => SlashEntryOf(visit[n].parent)

\* C7: no key and no value of the mapping refers to a name or path that
\* contains a configured exclusion pattern, manifest-derived entries included.
C7_NoExcludedPathInMapping ==
    \A n \in 1..Len(data) :
        /\ ~MatchesExclusion(data[n][1])
        /\ ~MatchesExclusion(SubSeq(data[n][2], 3, Len(data[n][2])))

HasHiddenSegment(path) ==
    \E n \in 1..Len(Split(relative(rootDir, path))) :
        NameStartsWithDot(Split(relative(rootDir, path))[n])

\* C8: no entry whose name starts with a dot is ever probed for metadata,
\* read as a manifest, listed or recursed into, or registered as a file,
\* index or trailing-slash entry, for every option setting.
C8_HiddenNeverVisited ==
    /\ \A n \in 1..Len(fsLog) :
          fsLog[n].op \in {"stat", "readdir", "readFile"} => ~HasHiddenSegment(fsLog[n].path)
    /\ \A n \in 1..Len(visit) : ~HasHiddenSegment(visit[n].key)
    /\ \A n \in 1..Len(regLog) :
          /\ ~HasHiddenSegment(regLog[n].dir)
          /\ regLog[n].kind \in {"file", "index"}
             => ~HasHiddenSegment(rootDir \o <<"/">> \o SubSeq(regLog[n].value, 3, Len(regLog[n].value)))

\* a directory whose listing holds a hidden entry has been listed and its
\* entries processed
C8_Witness ==
    \E n \in 1..Len(visit) :
        /\ visit[n].pc \in {"joining", "done"}
        /\ \E m \in 1..Len(fsReaddir(visit[n].key).list) :
              NameStartsWithDot(fsReaddir(visit[n].key).list[m])

RootIsNoDirectory == NodeAt(rootDir).kind \in {"missing", "file", "other"}

\* C10: if the root path does not exist or is not a directory, the call ends
\* in an error before any scanning: nothing is listed, probed, registered
\* or written.
C10_InvalidRootAborts ==
    RootIsNoDirectory =>
        /\ main.pc \in {"start", "threw"}
        /\ main.pc = "threw" => main.error \in {"not-exist", "not-directory"}
        /\ \A n \in 1..Len(fsLog) : fsLog[n].op = "rootStat"
        /\ visit = <<>> /\ scanned = {} /\ dirCache = <<>> /\ statsCache = <<>>
        /\ data = <<>> /\ regLog = <<>>
        /\ ~outFile.written

\* the call was made on a root that is a regular file, or missing, and threw
C10_Witness ==
    /\ RootIsNoDirectory
    /\ main.pc = "threw"
    /\ options.output.has

-----------------------------------------------------------------------------
(* C11..C20 *)

\* C11: no error arising while one directory is processed (a directory that
\* cannot be listed, an entry without metadata, a manifest that cannot be
\* read or parsed, a manifest whose main/exports hold values of any type)
\* aborts the walk: the call never ends in an error raised by the walk; the
\* only errors are those of the root check and of the final write.
C11_NoDirectoryErrorAbortsWalk ==
    main.pc = "threw" => main.error \in {"not-exist", "not-directory", "stat", "write"}

\* C12: across a sequence of builds into one output directory with
\* retention count maxBackups >= 1, once maxBackups backups exist every
\* further rotation evicts a backup, and the backup it evicts is the oldest:
\* no backup that remains was made before the evicted one.
C12_EvictsOldestBackup ==
    maxBackups >= 1 =>
        \A n \in 1..Len(rotLog) :
            /\ rotLog[n].before >= maxBackups => rotLog[n].evicted # 0
            /\ rotLog[n].evicted # 0 =>
                  \A m \in rotLog[n].others : rotLog[n].evicted < m

\* the names of the backups in the output directory
BackupNames ==
    { dist.files[i].name : i \in {j \in 1..Len(dist.files) : IsBackupName(dist.files[j].name)} }

\* the text of a backup name between <baseName>.old. and the extension
BackupNumberText(name) == SubSeq(name, pfxLen + 1, Len(name) - Len(fileExt))

\* C13: after any sequence of builds from an output directory without
\* backups, there are at most maxBackups backup files, every backup number is
\* in [0, maxBackups), and when a build started with an artifact at the
\* destination, that artifact is under a backup name when the bundler runs.
C13_BackupsBoundedAndPreserved ==
    /\ Cardinality(BackupNames) <= maxBackups
    /\ \A name \in BackupNames :
          /\ Len(BackupNumberText(name)) > 0
          /\ \A i \in 1..Len(BackupNumberText(name)) : IsDigit(BackupNumberText(name)[i])
          /\ parseInt(BackupNumberText(name)) < maxBackups
    /\ (build.pc = "bundling" /\ build.prev # 0) => build.prev \in BackupStamps(dist, <<>>)

\* no clear() of the cache was called between calls i and j of cacheLog
NoClearBetween(i, j) ==
    \A m \in (i + 1)..(j - 1) :
        ~(cacheLog[m].call = "clear" /\ cacheLog[m].which = cacheLog[i].which)

\* C14: between two clear() calls the fetch function is invoked at most once
\* per key: every get(key) after the first one, before or after the fetch
\* completed, returns the promise of the first call and starts no fetch.
C14_SingleFlight ==
    \A i, j \in 1..Len(cacheLog) :
        ( /\ i < j
          /\ cacheLog[i].call = "get" /\ cacheLog[j].call = "get"
          /\ cacheLog[i].which = cacheLog[j].which
          /\ cacheLog[i].key = cacheLog[j].key
          /\ NoClearBetween(i, j) )
        => /\ cacheLog[j].hit
           /\ cacheLog[j].promise = cacheLog[i].promise

\* a key was requested again while its fetch was pending, and again after it
\* had completed, with no clear() in between
C14_Witness ==
    \E i, j, k \in 1..Len(cacheLog) :
        /\ i < j /\ j < k
        /\ cacheLog[i].call = "get" /\ ~cacheLog[i].hit
        /\ cacheLog[j].call = "get" /\ ~cacheLog[j].settled
        /\ cacheLog[k].call = "get" /\ cacheLog[k].settled
        /\ cacheLog[i].which = cacheLog[j].which /\ cacheLog[j].which = cacheLog[k].which
        /\ cacheLog[i].key = cacheLog[j].key /\ cacheLog[j].key = cacheLog[k].key
        /\ NoClearBetween(i, k)

\* the call has a result to return or write, or an error to surface, after
\* it had started scanning
ScanningOver ==
    \/ main.pc \in {"writing", "returned"}
    \/ main.pc = "threw" /\ main.error \in {"scan", "write"}

\* C15: every run that started scanning tears both caches down, whether the
\* walk succeeded or failed: when the result is returned or written, or an
\* error is surfaced, both caches are empty and every handle they stored was
\* aborted; and after a walk that succeeded no probe operation is pending.
C15_CachesTornDown ==
    ScanningOver =>
        /\ dirCache = <<>>
        /\ statsCache = <<>>
        /\ \A n \in 1..Len(cacheLog) :
              (cacheLog[n].call = "get" /\ ~cacheLog[n].hit)
              => <<cacheLog[n].which, cacheLog[n].key>> \in aborted
        /\ main.error # "scan" =>
              \A n \in 1..Len(pending) : pending[n].op \notin {"readdir", "stat"}

\* the calls scan(key, depth) that returned at once (line 191 was false)
SkippedCalls ==
    UNION { { visit[n].subDirPromises[m].key :
                m \in {k \in 1..Len(visit[n].subDirPromises) :
                          visit[n].subDirPromises[k].skipped} } :
            n \in 1..Len(visit) }

\* C16: in one run each directory path enters the listing state at most
\* once: a path is put into the visited set in the step in which its visit
\* starts listing, no path has two visits or two listings, and a call for a
\* path at depth >= the bound ends at once, without a visit and a listing.
C16_ListedAtMostOnce ==
    /\ \A i, j \in 1..Len(visit) : visit[i].key = visit[j].key => i = j
    /\ \A i, j \in 1..Len(fsLog) :
          (fsLog[i].op = "readdir" /\ fsLog[j].op = "readdir" /\ fsLog[i].path = fsLog[j].path)
          => i = j
    /\ main.pc = "scanning" => \A n \in 1..Len(visit) : visit[n].key \in scanned
    /\ \A n \in 1..Len(visit) : visit[n].depth < depthMax
    /\ \A key \in SkippedCalls :
          /\ DepthOfPath(key) >= depthMax
          /\ \A n \in 1..Len(visit) : visit[n].key # key
          /\ \A n \in 1..Len(fsLog) : fsLog[n].op = "readdir" => fsLog[n].path # key

\* while the walk is running, several directories have been listed and a
\* call for a directory at the bound has ended without listing it
C16_Witness ==
    /\ main.pc = "scanning"
    /\ Cardinality(scanned) >= 2
    /\ Len(visit) = Cardinality(scanned)
    /\ SkippedCalls # {}

\* directory a lies below directory b
IsBelow(a, b) == StartsWith(a, b \o <<"/">>)

TailKinds == ManifestKinds \cup {"slash"}

\* C17: the visits of all subdirectories of a directory are done, with all
\* their registrations made, before the directory applies its manifest and
\* registers its trailing-slash entry; siblings may finish in any order.
C17_ChildrenDoneBeforeParentTail ==
    /\ \A n \in 1..Len(visit) :
          visit[n].pc = "done" =>
              \A m \in 1..Len(visit[n].subDirPromises) :
                  childState(Cur, visit[n].subDirPromises[m]) = "done"
    /\ \A i, j \in 1..Len(regLog) :
          (regLog[j].kind \in TailKinds /\ IsBelow(regLog[i].dir, regLog[j].dir))
          => i < j

\* a directory is done whose subdirectories finished in the order opposite
\* to the one they were started in, each with registrations of its own
C17_Witness ==
    \E n \in 1..Len(visit) :
        /\ visit[n].pc = "done"
        /\ \E a, b \in 1..Len(visit[n].subDirPromises) :
              /\ a < b
              /\ \E i, j \in 1..Len(regLog) :
                    /\ j < i
                    /\ regLog[i].kind = "slash" /\ regLog[j].kind = "slash"
                    /\ regLog[i].dir = visit[n].subDirPromises[a].key
                    /\ regLog[j].dir = visit[n].subDirPromises[b].key
        /\ \E k \in 1..Len(regLog) : regLog[k].dir = visit[n].key /\ regLog[k].kind = "slash"

\* a key of the form ./<something>
IsSubpathKey(k) == StartsWith(k, K_dotSlash) /\ k # K_dotSlash

\* the path a subpath value stands for: a plain path, or a conditions object
\* resolved by default, browser, import, node, first value
SubpathTarget(x) ==
    CASE TypeOf(x) = "string" -> x
      [] x.t = "object" -> resolveExport(x)
      [] OTHER -> JUndef

\* the exports field of the manifest found by visit n
ExportsOf(n) == Prop(visit[n].pkg, K_exports)

\* C18: when a non-root directory whose manifest has a subpath map as its
\* exports is done, every subpath key ./<s> whose value resolves to a path
\* has <directory>/<s> in the mapping, with the normalized resolved path as
\* its value unless something else had registered that key before.
C18_SubpathExportsRegistered ==
    \A n \in 1..Len(visit) :
        (visit[n].pc = "done" /\ visit[n].depth > 0 /\ ExportsOf(n).t = "object") =>
            \A m \in 1..Len(ExportsOf(n).kv) :
                ( /\ IsSubpathKey(ExportsOf(n).kv[m][1])
                  /\ TypeOf(SubpathTarget(ExportsOf(n).kv[m][2])) = "string"
                  /\ Truthy(SubpathTarget(ExportsOf(n).kv[m][2])) )
                => LET key == relativeToRootDir(visit[n].key) \o SliceFrom1(ExportsOf(n).kv[m][1])
                       value == toNorm(relativeToRootDir(visit[n].key),
                                       SubpathTarget(ExportsOf(n).kv[m][2]).s)
                   IN  /\ HasOwn(data, key)
                       /\ \/ MapsTo(key, value)
                          \/ \E k \in 1..Len(regLog) :
                                /\ regLog[k].key = key
                                /\ regLog[k].kind # "subpath"
                                /\ regLog[k].wrote

\* an object that has a key of the form ./<something>
IsSubpathMap(x) ==
    /\ x.t = "object"
    /\ \E m \in 1..Len(x.kv) : IsSubpathKey(x.kv[m][1])

\* the candidate for the exports root: exports itself if it is a plain path,
\* else the value under "." or, without a "." key, the whole structure
ExportsCandidate(pe) ==
    IF TypeOf(pe) = "string" THEN pe
    ELSE IF Truthy(Prop(pe, K_dot)) THEN Prop(pe, K_dot)
    ELSE pe

\* the path the manifest designates for the directory specifier, or
\* undefined when it designates none
ManifestTarget(pkg) ==
    LET c == ExportsCandidate(Prop(pkg, K_exports))
        r == IF IsSubpathMap(c) THEN JUndef
             ELSE IF c.t = "object" THEN resolveExport(c)
             ELSE c
    IN  IF Truthy(Prop(pkg, K_main)) THEN Prop(pkg, K_main)
        ELSE IF TypeOf(r) = "string" /\ Truthy(r) THEN r
        ELSE JUndef

\* something other than the manifest of the directory wrote the key
RegisteredOtherwise(key) ==
    \E k \in 1..Len(regLog) :
        regLog[k].key = key /\ regLog[k].wrote /\ regLog[k].kind \notin {"main", "exports"}

\* C19: when a non-root directory with a manifest is done and nothing else
\* has registered its specifier, the specifier maps to the normalized main
\* file if main is present, otherwise to the resolved exports root; when
\* that is no plain path, or the candidate is a subpath map, the specifier
\* is not registered.
C19_DirectorySpecifierFromManifest ==
    \A n \in 1..Len(visit) :
        ( /\ visit[n].pc = "done"
          /\ visit[n].depth > 0
          /\ visit[n].pkg.t = "object"
          /\ ~RegisteredOtherwise(relativeToRootDir(visit[n].key)) )
        => IF ManifestTarget(visit[n].pkg).t = "string"
           THEN MapsTo(relativeToRootDir(visit[n].key),
                       toNorm(relativeToRootDir(visit[n].key), ManifestTarget(visit[n].pkg).s))
           ELSE ~HasOwn(data, relativeToRootDir(visit[n].key))

\* the root directory lists a manifest file
RootHasManifest ==
    /\ fsStat(rootDir) = "dir"
    /\ \E m \in 1..Len(fsReaddir(rootDir).list) : fsReaddir(rootDir).list[m] = K_packageJson
    /\ fsStat(join(rootDir, K_packageJson)) = "file"

\* C20: a manifest directly in the root directory is read, but its fold
\* leaves the mapping unchanged: the root registers nothing from main or
\* exports, ./ is in the mapping only if the root registered a file or a
\* subdirectory had content, and a root holding only a manifest yields an
\* empty mapping.
C20_RootManifestHasNoEffect ==
    /\ \A n \in 1..Len(regLog) :
          regLog[n].dir = rootDir => regLog[n].kind \notin ManifestKinds
    /\ (WalkEnded /\ RootHasManifest) =>
          /\ \E n \in 1..Len(fsLog) :
                fsLog[n].op = "readFile" /\ fsLog[n].path = join(rootDir, K_packageJson)
          /\ HasOwn(data, K_dotSlash) =>
                \/ V(Cur, rootDir).hasFiles
                \/ \E m \in 1..Len(V(Cur, rootDir).subDirPromises) :
                      childRet(Cur, V(Cur, rootDir).subDirPromises[m]) = "true"
          /\ fsReaddir(rootDir).list = <<K_packageJson>> => data = <<>>

\* the call returned for a root that holds only a manifest with a main and
\* an exports field, after the manifest was parsed
C20_Witness ==
    /\ main.pc = "returned"
    /\ fsReaddir(rootDir).list = <<K_packageJson>>
    /\ Truthy(Prop(V(Cur, rootDir).pkg, K_main))
    /\ Truthy(Prop(V(Cur, rootDir).pkg, K_exports))

====
